---- MODULE Spec2Model ----
(***************************************************************************)
(* Model of tools/stockfish_tools.py: the singleton engine, the worker     *)
(* function `_batch` of batch_analyze_games and the worker `_analyze` of   *)
(* analyze_position, both run in executor threads over the one engine.     *)
(*                                                                         *)
(* The rules library (python-chess) and the evaluator (Stockfish) are      *)
(* external.  A board is abstracted to what the code reads from it: the    *)
(* stack of pushed moves, the side to move, the fullmove number and the    *)
(* combined count of knights, bishops, rooks and queens.  Every evaluator  *)
(* call may return or raise; what it returns is drawn from small sets.     *)
(***************************************************************************)
EXTENDS Integers, Sequences, FiniteSets, TLC

\* ------------------------------------------------------------------ bounds
MaxGames == 2
MaxMoves == 2
MaxPlies == 2
MaxSkip == 1
MaxFullmove == 30
MaxPieces == 14
MaxScored == 2
MaxValue == 30
MaxCalls == 2
MaxFound == 11

\* ------------------------------------------------------- program constants
MATE_VALUE == 10000
BLUNDER_CP == 200
MISTAKE_CP == 100
INACCURACY_CP == 50
OPENING_MAX_FULLMOVE == 15
OPENING_MIN_PIECES == 12
ENDGAME_MAX_PIECES == 6
TOP_N == 3
SAMPLE_LIMIT == 5
ANALYZE_LIMIT == 10

\* ------------------------------------------------------------------ inputs
\* Evaluations the engine may return: {"type": "cp"|"mate", "value": int}.
Evaluations ==
    { [type |-> "cp", value |-> -250], [type |-> "mate", value |-> 1] }

\* Move identifiers.  The played move is one of PlayedUcis; the engine's
\* candidates are distinct identifiers of CandidateUcis, best first.
PlayedUcis == {"e2e4"}
CandidateUcis == {"e2e4", "d2d4", "g1f3"}

TopLists ==
    { s \in UNION { [1..n -> CandidateUcis] : n \in 0..TOP_N } :
        \A i, j \in 1..Len(s) : i # j => s[i] # s[j] }

\* Starting positions of a game (game.board(): the standard position or the
\* one of the game's FEN header).
StartPositions ==
    { [stack |-> <<>>, turn |-> "w", fullmove |-> 1, pieces |-> 13],
      [stack |-> <<>>, turn |-> "b", fullmove |-> 15, pieces |-> 13],
      [stack |-> <<>>, turn |-> "w", fullmove |-> 30, pieces |-> 7] }

\* A mainline move: its identifier and what it does to the piece count
\* (-1: it captures a knight, bishop, rook or queen).
Moves == [uci : PlayedUcis, delta : {-1, 0}]

\* Evaluations _cp_value is applied to on its own.
ValueInputs == [type : {"cp", "mate"}, value : (-MaxValue)..MaxValue]

\* Positions get_game_phase is applied to on its own.
Positions ==
    [stack : {<<>>}, turn : {"w", "b"}, fullmove : 1..MaxFullmove,
     pieces : 0..MaxPieces]

\* Evaluations of the moves scored on their own: losses on both sides of each
\* threshold, gains, and mates for either side.
WideEvaluations ==
    [type : {"cp"}, value : {-50, 0, 50, 100, 101, 200, 251}]
        \cup [type : {"mate"}, value : {-1, 1}]

NoMove == [uci |-> "none", delta |-> 0]
NoEval == [type |-> "none", value |-> 0]
NoBoard == [stack |-> <<>>, turn |-> "w", fullmove |-> 0, pieces |-> 0]
NoResult == [pc |-> "none", error |-> "none", stats |-> <<>>]

VARIABLES
    ngames,              \* len(games)
    skip_opening_moves,  \* parameter of batch_analyze_games
    available,           \* the stockfish package and binary are present
    engine,              \* the global _engine: 0 is None, 1 the instance
    enginePos,           \* whose set_fen_position set the engine's position
    called,              \* _batch has issued a call on the engine
    pc,                  \* position of _batch
    error,               \* the exception _batch raised, if any
    stats,               \* the stats dict of _batch
    gi,                  \* index of the game of `for game in games`
    glen,                \* number of mainline moves of that game
    plies,               \* mainline moves of the games reached so far
    board,               \* board of that game
    move_num,            \* move_num
    move,                \* move
    fen,                 \* fen
    phase,               \* phase
    eval_before,         \* eval_before
    eval_after,          \* eval_after
    top_ucis,            \* top_ucis
    failed_at,           \* where the exception being handled was raised
    stats0,              \* stats when processing of the current move began
    board0,              \* board when processing of the current move began
    evaluable,           \* moves past the skip threshold so far
    failures,            \* moves with a failed evaluator call so far
    evalFor,             \* whose position the last evaluation of _batch was of
    opc,                 \* position of _analyze (analyze_position)
    oEvalFor,            \* whose position the evaluation of _analyze was of
    sent,                \* the FEN _batch last passed to set_fen_position
    last_cpl,            \* cpl of the move last scored on its own
    uniform,             \* every move scored on its own so far had that cpl
    script,              \* what the games and the evaluator give to each call
    calls,               \* calls of batch_analyze_games so far, this one included
    result1,             \* how the first call ended, once a second is made
    cp_arg,              \* the argument of a call of _cp_value on its own
    cp_ret,              \* what that call returned
    tpc,                 \* where each thread calling _get_engine is in it
    made,                \* the Stockfish instance each thread constructed
    got,                 \* the instance _get_engine last returned to each
    outcome,             \* how each thread's last call of _get_engine ended
    created,             \* Stockfish instances constructed so far
    ncalls,              \* calls of _get_engine each thread has made
    gpc,                 \* where gather_context is
    database,            \* the games find_player_games finds for the player
    games,               \* gather_context's games
    games_to_analyze,    \* what gather_context passes to batch_analyze_games
    batch_error,         \* the text of what that batch raised, if it did
    context              \* gather_context's context

vars == <<ngames, skip_opening_moves, available, engine, enginePos,
          called, pc, error, stats, gi, glen, plies, board, move_num, move, fen,
          phase, eval_before, eval_after, top_ucis, failed_at, stats0, board0, evaluable,
          failures, evalFor, opc, oEvalFor, sent, last_cpl,
          uniform, script, calls, result1, cp_arg, cp_ret, tpc, made, got,
          outcome, created, ncalls, gpc, database, games, games_to_analyze,
          batch_error, context>>

\* ---------------------------------------------------------- pure functions
Max(a, b) == IF a >= b THEN a ELSE b

\* Mutant of _cp_value: a mate in 0 counts for the side to move.
cp_value_mate0(evaluation) ==
    IF evaluation.type = "cp" THEN evaluation.value
    ELSE IF evaluation.type = "mate"
         THEN (IF evaluation.value >= 0 THEN MATE_VALUE ELSE -MATE_VALUE)
         ELSE 0

\* _cp_value
cp_value(evaluation) ==
    IF evaluation.type = "cp" THEN evaluation.value
    ELSE IF evaluation.type = "mate"
         THEN (IF evaluation.value > 0 THEN MATE_VALUE ELSE -MATE_VALUE)
         ELSE 0

\* Mutant of get_game_phase: the opening ends before move 15.
get_game_phase_strict(f) ==
    IF f.fullmove < OPENING_MAX_FULLMOVE /\ f.pieces >= OPENING_MIN_PIECES
    THEN "opening"
    ELSE IF f.pieces <= ENDGAME_MAX_PIECES THEN "endgame" ELSE "middlegame"

\* get_game_phase
get_game_phase(f) ==
    IF f.fullmove <= OPENING_MAX_FULLMOVE /\ f.pieces >= OPENING_MIN_PIECES
    THEN "opening"
    ELSE IF f.pieces <= ENDGAME_MAX_PIECES THEN "endgame" ELSE "middlegame"

\* board.push(move) of a move of the game on the position it was played in.
\* i is the move's index in the mainline.
Push(b, i, m) ==
    [stack |-> Append(b.stack, i),
     turn |-> IF b.turn = "w" THEN "b" ELSE "w",
     fullmove |-> IF b.turn = "b" THEN b.fullmove + 1 ELSE b.fullmove,
     pieces |-> b.pieces + m.delta]

\* board.fen()
Fen(b) == b

\* Mutant of Cpl: the difference is not clamped at 0.
CplUnclamped(b, before, after) ==
    LET cp_before == cp_value(before)
        cp_after == cp_value(after)
    IN  IF b.turn = "b"
        THEN cp_before - (-cp_after)
        ELSE (-cp_before) - cp_after

\* Centipawn loss of the move just pushed on b.
Cpl(b, before, after) ==
    LET cp_before == cp_value(before)
        cp_after == cp_value(after)
    IN  IF b.turn = "b"
        THEN Max(0, cp_before - (-cp_after))
        ELSE Max(0, (-cp_before) - cp_after)

\* The stats dict as created.
InitStats ==
    [total_positions |-> 0, total_cpl |-> 0, blunders |-> 0, mistakes |-> 0,
     inaccuracies |-> 0, t1_matches |-> 0, t2_matches |-> 0, t3_matches |-> 0,
     phase_stats |->
        [p \in {"opening", "middlegame", "endgame"} |->
            [positions |-> 0, total_cpl |-> 0, blunders |-> 0]],
     games_analyzed |-> 0]

\* T1/T2/T3 counting of the played move against top_ucis.
InFirst(uci, tops, k) == \E j \in 1..k : j <= Len(tops) /\ tops[j] = uci

\* Mutant of RankMatch: the tiers counted as exclusive buckets.
RankMatchExclusive(s, uci, tops) ==
    IF Len(tops) > 0 /\ uci = tops[1]
    THEN [s EXCEPT !.t1_matches = @ + 1]
    ELSE IF InFirst(uci, tops, 2)
    THEN [s EXCEPT !.t2_matches = @ + 1]
    ELSE IF InFirst(uci, tops, TOP_N)
    THEN [s EXCEPT !.t3_matches = @ + 1]
    ELSE s

\* Mutant of RankMatch: a list of fewer than three candidates is not compared.
RankMatchNeedsThree(s, uci, tops) ==
    IF Len(tops) < TOP_N THEN s
    ELSE IF uci = tops[1]
    THEN [s EXCEPT !.t1_matches = @ + 1, !.t2_matches = @ + 1,
                   !.t3_matches = @ + 1]
    ELSE IF InFirst(uci, tops, 2)
    THEN [s EXCEPT !.t2_matches = @ + 1, !.t3_matches = @ + 1]
    ELSE IF InFirst(uci, tops, TOP_N)
    THEN [s EXCEPT !.t3_matches = @ + 1]
    ELSE s

RankMatch(s, uci, tops) ==
    IF Len(tops) > 0 /\ uci = tops[1]
    THEN [s EXCEPT !.t1_matches = @ + 1, !.t2_matches = @ + 1,
                   !.t3_matches = @ + 1]
    ELSE IF InFirst(uci, tops, 2)
    THEN [s EXCEPT !.t2_matches = @ + 1, !.t3_matches = @ + 1]
    ELSE IF InFirst(uci, tops, TOP_N)
    THEN [s EXCEPT !.t3_matches = @ + 1]
    ELSE s

\* Mutant of Record: a loss equal to a threshold counts in the class above.
RecordInclusive(s, ph, cpl) ==
    LET s1 == [s EXCEPT !.total_cpl = @ + cpl,
                        !.total_positions = @ + 1,
                        !.phase_stats[ph].positions = @ + 1,
                        !.phase_stats[ph].total_cpl = @ + cpl]
    IN  IF cpl >= BLUNDER_CP
        THEN [s1 EXCEPT !.blunders = @ + 1,
                        !.phase_stats[ph].blunders = @ + 1]
        ELSE IF cpl >= MISTAKE_CP THEN [s1 EXCEPT !.mistakes = @ + 1]
        ELSE IF cpl >= INACCURACY_CP THEN [s1 EXCEPT !.inaccuracies = @ + 1]
        ELSE s1

\* Mutant of Record: a blunder is counted in the total only, not in its
\* phase.
RecordNoPhaseBlunder(s, ph, cpl) ==
    LET s1 == [s EXCEPT !.total_cpl = @ + cpl,
                        !.total_positions = @ + 1,
                        !.phase_stats[ph].positions = @ + 1,
                        !.phase_stats[ph].total_cpl = @ + cpl]
    IN  IF cpl > BLUNDER_CP
        THEN [s1 EXCEPT !.blunders = @ + 1]
        ELSE IF cpl > MISTAKE_CP THEN [s1 EXCEPT !.mistakes = @ + 1]
        ELSE IF cpl > INACCURACY_CP THEN [s1 EXCEPT !.inaccuracies = @ + 1]
        ELSE s1

\* Mutant of Record: the loss of a blunder is kept out of the totals.
RecordBlunderDropped(s, ph, cpl) ==
    LET s0 == [s EXCEPT !.total_positions = @ + 1,
                        !.phase_stats[ph].positions = @ + 1]
        s1 == [s0 EXCEPT !.total_cpl = @ + cpl,
                         !.phase_stats[ph].total_cpl = @ + cpl]
    IN  IF cpl > BLUNDER_CP
        THEN [s0 EXCEPT !.blunders = @ + 1,
                        !.phase_stats[ph].blunders = @ + 1]
        ELSE IF cpl > MISTAKE_CP THEN [s1 EXCEPT !.mistakes = @ + 1]
        ELSE IF cpl > INACCURACY_CP THEN [s1 EXCEPT !.inaccuracies = @ + 1]
        ELSE s1

\* The statistics of one evaluated move.
Record(s, ph, cpl) ==
    LET s1 == [s EXCEPT !.total_cpl = @ + cpl,
                        !.total_positions = @ + 1,
                        !.phase_stats[ph].positions = @ + 1,
                        !.phase_stats[ph].total_cpl = @ + cpl]
    IN  IF cpl > BLUNDER_CP
        THEN [s1 EXCEPT !.blunders = @ + 1,
                        !.phase_stats[ph].blunders = @ + 1]
        ELSE IF cpl > MISTAKE_CP THEN [s1 EXCEPT !.mistakes = @ + 1]
        ELSE IF cpl > INACCURACY_CP THEN [s1 EXCEPT !.inaccuracies = @ + 1]
        ELSE s1

\* round(num / den, k) in units of 10^-k: scaled is num * 10^k.  Python
\* rounds the quotient to the nearest unit, an exact tie to the even one.
Round(scaled, den) ==
    LET q == scaled \div den
        r == scaled % den
    IN  IF 2 * r < den THEN q
        ELSE IF 2 * r > den THEN q + 1
        ELSE IF q % 2 = 0 THEN q ELSE q + 1

\* Mutant of Derived: acpl is averaged over one position too many.
DerivedSmoothed(s) ==
    LET total == s.total_positions
    IN  IF total > 0
        THEN [acpl |-> Round(s.total_cpl * 10, total + 1),
              blunder_rate |-> Round(s.blunders * 10000, total),
              mistake_rate |-> Round(s.mistakes * 10000, total),
              inaccuracy_rate |-> Round(s.inaccuracies * 10000, total),
              t1_accuracy |-> Round(s.t1_matches * 10000, total),
              t2_accuracy |-> Round(s.t2_matches * 10000, total),
              t3_accuracy |-> Round(s.t3_matches * 10000, total)]
             @@ [s EXCEPT !.phase_stats =
                    [p \in DOMAIN s.phase_stats |->
                        IF s.phase_stats[p].positions > 0
                        THEN [acpl |-> Round(s.phase_stats[p].total_cpl * 10,
                                             s.phase_stats[p].positions)]
                             @@ s.phase_stats[p]
                        ELSE s.phase_stats[p]]]
        ELSE [acpl |-> 0, blunder_rate |-> 0, t1_accuracy |-> 0] @@ s

\* Mutant of Derived: no defaults when no position was evaluated.
DerivedNoDefaults(s) ==
    LET total == s.total_positions
    IN  IF total > 0
        THEN [acpl |-> Round(s.total_cpl * 10, total),
              blunder_rate |-> Round(s.blunders * 10000, total),
              mistake_rate |-> Round(s.mistakes * 10000, total),
              inaccuracy_rate |-> Round(s.inaccuracies * 10000, total),
              t1_accuracy |-> Round(s.t1_matches * 10000, total),
              t2_accuracy |-> Round(s.t2_matches * 10000, total),
              t3_accuracy |-> Round(s.t3_matches * 10000, total)]
             @@ [s EXCEPT !.phase_stats =
                    [p \in DOMAIN s.phase_stats |->
                        IF s.phase_stats[p].positions > 0
                        THEN [acpl |-> Round(s.phase_stats[p].total_cpl * 10,
                                             s.phase_stats[p].positions)]
                             @@ s.phase_stats[p]
                        ELSE s.phase_stats[p]]]
        ELSE s

\* Mutant of Derived: every phase gets an acpl, 0 for a phase without
\* positions.
DerivedPhaseAlways(s) ==
    LET total == s.total_positions
    IN  IF total > 0
        THEN [acpl |-> Round(s.total_cpl * 10, total),
              blunder_rate |-> Round(s.blunders * 10000, total),
              mistake_rate |-> Round(s.mistakes * 10000, total),
              inaccuracy_rate |-> Round(s.inaccuracies * 10000, total),
              t1_accuracy |-> Round(s.t1_matches * 10000, total),
              t2_accuracy |-> Round(s.t2_matches * 10000, total),
              t3_accuracy |-> Round(s.t3_matches * 10000, total)]
             @@ [s EXCEPT !.phase_stats =
                    [p \in DOMAIN s.phase_stats |->
                        IF s.phase_stats[p].positions > 0
                        THEN [acpl |-> Round(s.phase_stats[p].total_cpl * 10,
                                             s.phase_stats[p].positions)]
                             @@ s.phase_stats[p]
                        ELSE [acpl |-> 0] @@ s.phase_stats[p]]]
        ELSE [acpl |-> 0, blunder_rate |-> 0, t1_accuracy |-> 0] @@ s

\* "Compute derived stats".  acpl is held in tenths, the rates and
\* accuracies in ten-thousandths.
Derived(s) ==
    LET total == s.total_positions
    IN  IF total > 0
        THEN [acpl |-> Round(s.total_cpl * 10, total),
              blunder_rate |-> Round(s.blunders * 10000, total),
              mistake_rate |-> Round(s.mistakes * 10000, total),
              inaccuracy_rate |-> Round(s.inaccuracies * 10000, total),
              t1_accuracy |-> Round(s.t1_matches * 10000, total),
              t2_accuracy |-> Round(s.t2_matches * 10000, total),
              t3_accuracy |-> Round(s.t3_matches * 10000, total)]
             @@ [s EXCEPT !.phase_stats =
                    [p \in DOMAIN s.phase_stats |->
                        IF s.phase_stats[p].positions > 0
                        THEN [acpl |-> Round(s.phase_stats[p].total_cpl * 10,
                                             s.phase_stats[p].positions)]
                             @@ s.phase_stats[p]
                        ELSE s.phase_stats[p]]]
        ELSE [acpl |-> 0, blunder_rate |-> 0, t1_accuracy |-> 0] @@ s

\* The move on top of the board's stack is move i of the mainline: its
\* origin square is empty, so pushing it again is not pseudo-legal.
Pushed(b, i) == Len(b.stack) > 0 /\ b.stack[Len(b.stack)] = i

\* board.push of a move that is not pseudo-legal, as far as the library gets
\* before its assertion on the moved piece fails: the move is on the stack
\* and the counters are advanced, the turn is not swapped.
PushRejected(b, i) ==
    [b EXCEPT !.stack = Append(@, i),
              !.fullmove = IF b.turn = "b" THEN @ + 1 ELSE @]

\* The same push when assertions are off: the library goes on with no piece in
\* hand, empties the target square and swaps the turn.  The piece removed is
\* the one that had just moved: d = -1 when it was a knight, bishop, rook or
\* queen.
PushCorrupt(b, i, d) ==
    [stack |-> Append(b.stack, i),
     turn |-> IF b.turn = "w" THEN "b" ELSE "w",
     fullmove |-> IF b.turn = "b" THEN b.fullmove + 1 ELSE b.fullmove,
     pieces |-> b.pieces + d]

\* ------------------------------------------------------------------- state
inputs == <<ngames, skip_opening_moves, available>>
other == <<opc, oEvalFor>>
locals == <<move, fen, phase, eval_before, eval_after, top_ucis, stats0,
            board0, sent>>
scoring == <<last_cpl, uniform>>
twice == <<script, calls, result1>>
aside == <<cp_arg, cp_ret>>

\* No call of _cp_value on its own.
NoValue ==
    /\ cp_arg = NoEval
    /\ cp_ret = 0
\* The threads that call _get_engine: the executor threads of
\* analyze_position and of batch_analyze_games.
Threads == {"analyze", "batch"}
getting == <<tpc, made, got, outcome, created, ncalls>>
\* No thread is in _get_engine on its own.
NoGetting ==
    /\ tpc = [t \in Threads |-> "idle"]
    /\ made = [t \in Threads |-> 0]
    /\ got = [t \in Threads |-> 0]
    /\ outcome = [t \in Threads |-> "none"]
    /\ created = 0
    /\ ncalls = [t \in Threads |-> 0]
gathering == <<gpc, database, games, games_to_analyze, batch_error, context>>
\* Python's None, where a dict is expected.
None == [none |-> TRUE]
\* gather_context is not running.
NoGathering ==
    /\ gpc = "idle"
    /\ database = <<>>
    /\ games = <<>>
    /\ games_to_analyze = <<>>
    /\ batch_error = "none"
    /\ context = None
counts == <<evaluable, failures, plies>>

Init ==
    /\ ngames \in 0..MaxGames
    /\ skip_opening_moves \in 0..MaxSkip
    /\ available \in BOOLEAN
    /\ engine = 0
    /\ enginePos = "none"
    /\ called = FALSE
    /\ pc = "start"
    /\ error = "none"
    /\ stats = InitStats
    /\ gi = 0
    /\ glen = 0
    /\ plies = 0
    /\ board = NoBoard
    /\ move_num = 0
    /\ move = NoMove
    /\ fen = NoBoard
    /\ phase = "none"
    /\ eval_before = NoEval
    /\ eval_after = NoEval
    /\ top_ucis = <<>>
    /\ failed_at = "none"
    /\ stats0 = InitStats
    /\ board0 = NoBoard
    /\ evaluable = 0
    /\ failures = 0
    /\ evalFor = "none"
    /\ opc = "idle"
    /\ oEvalFor = "none"
    /\ sent = NoBoard
    /\ last_cpl = 0
    /\ uniform = TRUE
    /\ NoValue
    /\ NoGetting
    /\ NoGathering
    /\ script = <<>>
    /\ calls = 1
    /\ result1 = NoResult

\* ------------------------------------------------------------------ _batch
\* Mutant of GetEngine: a missing engine is not detected at the start.
GetEngineUnchecked ==
    /\ pc = "start"
    /\ engine' = IF available THEN 1 ELSE engine
    /\ stats' = InitStats
    /\ pc' = "games"
    /\ UNCHANGED <<inputs, aside, getting, gathering, twice, scoring, other, locals, counts, enginePos, called, gi,
                   glen, board, move_num, failed_at, evalFor, error>>

\* Mutant of GetEngine: the stats dict is the one of the call before.
GetEngineKeepsStats ==
    /\ pc = "start"
    /\ IF engine = 0 /\ ~available
       THEN /\ pc' = "raised"
            /\ error' = "RuntimeError"
            /\ UNCHANGED <<engine, stats>>
       ELSE /\ engine' = 1
            /\ stats' = IF calls = 1 THEN InitStats ELSE stats
            /\ pc' = "games"
            /\ UNCHANGED error
    /\ UNCHANGED <<inputs, aside, getting, gathering, twice, scoring, other, locals, counts, enginePos,
                   called, gi, glen, board, move_num, failed_at, evalFor>>

\* engine = _get_engine(), then the stats dict.
GetEngine ==
    /\ pc = "start"
    /\ IF engine = 0 /\ ~available
       THEN /\ pc' = "raised"
            /\ error' = "RuntimeError"
            /\ UNCHANGED <<engine, stats>>
       ELSE /\ engine' = 1
            /\ stats' = InitStats
            /\ pc' = "games"
            /\ UNCHANGED error
    /\ UNCHANGED <<inputs, aside, getting, gathering, twice, scoring, other, locals, counts, enginePos, called, gi,
                   glen, board, move_num, failed_at, evalFor>>

\* for game in games: board = game.board(); move_num = 0
NextGame ==
    /\ pc = "games"
    /\ gi < ngames
    /\ \E s \in StartPositions, n \in 0..MaxMoves :
          /\ plies + n <= MaxPlies
          /\ board' = s
          /\ glen' = n
          /\ plies' = plies + n
    /\ move_num' = 0
    /\ pc' = "moves"
    /\ UNCHANGED <<inputs, aside, getting, gathering, twice, scoring, other, locals, evaluable, failures, engine, enginePos,
                   called, error, stats, gi, failed_at, evalFor>>

\* for move in game.mainline_moves(): a move within skip_opening_moves.
SkipMove ==
    /\ pc = "moves"
    /\ move_num < glen
    /\ move_num + 1 <= skip_opening_moves
    /\ \E m \in Moves :
          /\ board.pieces + m.delta >= 0
          /\ board' = Push(board, move_num + 1, m)
    /\ move_num' = move_num + 1
    /\ UNCHANGED <<inputs, aside, getting, gathering, twice, scoring, other, locals, counts, engine, enginePos,
                   called, pc, error, stats, gi, glen, failed_at, evalFor>>

\* Mutant of BeginMove: the threshold is compared with the number of the move
\* in the batch, not in its game.
BeginMoveBatchCount ==
    /\ pc = "moves"
    /\ move_num < glen
    /\ (plies - glen) + move_num + 1 > skip_opening_moves
    /\ \E m \in Moves :
          /\ board.pieces + m.delta >= 0
          /\ move' = m
    /\ move_num' = move_num + 1
    /\ fen' = Fen(board)
    /\ phase' = get_game_phase(Fen(board))
    /\ stats0' = stats
    /\ board0' = board
    /\ evaluable' = evaluable + 1
    /\ pc' = "pre_set"
    /\ UNCHANGED <<inputs, aside, getting, gathering, twice, scoring, plies, other, engine, enginePos,
                   called, error, stats, gi, glen, board, eval_before,
                   eval_after, top_ucis, failed_at, failures, evalFor, sent>>

\* Mutant of BeginMove: the phase is that of the position after the move.
BeginMovePhaseAfter ==
    /\ pc = "moves"
    /\ move_num < glen
    /\ move_num + 1 > skip_opening_moves
    /\ \E m \in Moves :
          /\ board.pieces + m.delta >= 0
          /\ move' = m
          /\ phase' = get_game_phase(Fen(Push(board, move_num + 1, m)))
    /\ move_num' = move_num + 1
    /\ fen' = Fen(board)
    /\ stats0' = stats
    /\ board0' = board
    /\ evaluable' = evaluable + 1
    /\ pc' = "pre_set"
    /\ UNCHANGED <<inputs, aside, getting, gathering, twice, scoring, plies, other, engine,
                   enginePos, called, error, stats, gi, glen, board,
                   eval_before, eval_after, top_ucis, failed_at, failures,
                   evalFor, sent>>

\* for move in game.mainline_moves(): a move to evaluate; fen and phase.
BeginMove ==
    /\ pc = "moves"
    /\ move_num < glen
    /\ move_num + 1 > skip_opening_moves
    /\ \E m \in Moves :
          /\ board.pieces + m.delta >= 0
          /\ move' = m
    /\ move_num' = move_num + 1
    /\ fen' = Fen(board)
    /\ phase' = get_game_phase(Fen(board))
    /\ stats0' = stats
    /\ board0' = board
    /\ evaluable' = evaluable + 1
    /\ pc' = "pre_set"
    /\ UNCHANGED <<inputs, aside, getting, gathering, twice, scoring, plies, other, engine, enginePos, called, error, stats,
                   gi, glen, board, eval_before, eval_after, top_ucis,
                   failed_at, failures, evalFor, sent>>

\* Mutant of EndGame: a game without moves is not counted.
EndGameSkipsEmpty ==
    /\ pc = "moves"
    /\ move_num = glen
    /\ stats' = [stats EXCEPT !.games_analyzed =
                              IF glen > 0 THEN @ + 1 ELSE @]
    /\ gi' = gi + 1
    /\ board' = NoBoard
    /\ glen' = 0
    /\ move_num' = 0
    /\ pc' = "games"
    /\ UNCHANGED <<inputs, aside, getting, gathering, twice, scoring, other, locals, counts, engine,
                   enginePos, called, error, failed_at, evalFor>>

\* The mainline is exhausted: stats["games_analyzed"] += 1.  board and
\* move_num are assigned anew before the next game reads them.
EndGame ==
    /\ pc = "moves"
    /\ move_num = glen
    /\ stats' = [stats EXCEPT !.games_analyzed = @ + 1]
    /\ gi' = gi + 1
    /\ board' = NoBoard
    /\ glen' = 0
    /\ move_num' = 0
    /\ pc' = "games"
    /\ UNCHANGED <<inputs, aside, getting, gathering, twice, scoring, other, locals, counts, engine, enginePos,
                   called, error, failed_at, evalFor>>

\* An evaluator call raises: control goes to `except Exception`.
Raise(where) ==
    /\ pc' = "except"
    /\ failed_at' = where
    /\ UNCHANGED <<enginePos, eval_before, eval_after, top_ucis, evalFor,
                   stats, board>>

\* engine.set_fen_position(fen)
PreSetPosition ==
    /\ pc = "pre_set"
    /\ called' = TRUE
    /\ sent' = fen
    /\ \/ /\ enginePos' = "batch"
          /\ pc' = "pre_depth"
          /\ UNCHANGED <<eval_before, eval_after, top_ucis, evalFor, stats,
                         board, failed_at>>
       \/ Raise("pre")
    /\ UNCHANGED <<inputs, aside, getting, gathering, twice, scoring, other, counts, engine, error, gi, glen, move_num,
                   move, fen, phase, stats0, board0>>

\* engine.set_depth(depth)
PreSetDepth ==
    /\ pc = "pre_depth"
    /\ called' = TRUE
    /\ \/ /\ pc' = "pre_eval"
          /\ UNCHANGED <<enginePos, eval_before, eval_after, top_ucis,
                         evalFor, stats, board, failed_at>>
       \/ Raise("pre")
    /\ UNCHANGED <<inputs, aside, getting, gathering, twice, scoring, other, counts, engine, error, gi, glen, move_num,
                   move, fen, phase, stats0, board0, sent>>

\* eval_before = engine.get_evaluation()
PreEvaluate ==
    /\ pc = "pre_eval"
    /\ called' = TRUE
    /\ \/ /\ \E e \in Evaluations : eval_before' = e
          /\ evalFor' = enginePos
          /\ pc' = "pre_top"
          /\ UNCHANGED <<enginePos, eval_after, top_ucis, stats, board,
                         failed_at>>
       \/ Raise("pre")
    /\ UNCHANGED <<inputs, aside, getting, gathering, twice, scoring, other, counts, engine, error, gi, glen, move_num,
                   move, fen, phase, stats0, board0, sent>>

\* top_moves = engine.get_top_moves(3); top_ucis
PreTopMoves ==
    /\ pc = "pre_top"
    /\ called' = TRUE
    /\ \/ /\ \E t \in TopLists : top_ucis' = t
          /\ pc' = "rank"
          /\ UNCHANGED <<enginePos, eval_before, eval_after, evalFor, stats,
                         board, failed_at>>
       \/ Raise("pre")
    /\ UNCHANGED <<inputs, aside, getting, gathering, twice, scoring, other, counts, engine, error, gi, glen, move_num,
                   move, fen, phase, stats0, board0, sent>>

\* "Check T1/T2/T3", then board.push(move).  top_ucis is not read again.
RankAndPush ==
    /\ pc = "rank"
    /\ stats' = RankMatch(stats, move.uci, top_ucis)
    /\ board' = Push(board, move_num, move)
    /\ top_ucis' = <<>>
    /\ pc' = "post_set"
    /\ UNCHANGED <<inputs, aside, getting, gathering, twice, scoring, other, counts, engine, enginePos, called, error,
                   gi, glen, move_num, move, fen, phase, eval_before,
                   eval_after, failed_at, stats0, board0, evalFor, sent>>

\* Mutant of PostSetPosition: the FEN taken before the move is sent again.
PostSetPositionStale ==
    /\ pc = "post_set"
    /\ called' = TRUE
    /\ sent' = fen
    /\ \/ /\ enginePos' = "batch"
          /\ pc' = "post_depth"
          /\ UNCHANGED <<eval_before, eval_after, top_ucis, evalFor, stats,
                         board, failed_at>>
       \/ Raise("post")
    /\ UNCHANGED <<inputs, aside, getting, gathering, twice, scoring, other, counts, engine, error, gi,
                   glen, move_num, move, fen, phase, stats0, board0>>

\* engine.set_fen_position(board.fen())
PostSetPosition ==
    /\ pc = "post_set"
    /\ called' = TRUE
    /\ sent' = Fen(board)
    /\ \/ /\ enginePos' = "batch"
          /\ pc' = "post_depth"
          /\ UNCHANGED <<eval_before, eval_after, top_ucis, evalFor, stats,
                         board, failed_at>>
       \/ Raise("post")
    /\ UNCHANGED <<inputs, aside, getting, gathering, twice, scoring, other, counts, engine, error, gi, glen, move_num,
                   move, fen, phase, stats0, board0>>

\* engine.set_depth(depth)
PostSetDepth ==
    /\ pc = "post_depth"
    /\ called' = TRUE
    /\ \/ /\ pc' = "post_eval"
          /\ UNCHANGED <<enginePos, eval_before, eval_after, top_ucis,
                         evalFor, stats, board, failed_at>>
       \/ Raise("post")
    /\ UNCHANGED <<inputs, aside, getting, gathering, twice, scoring, other, counts, engine, error, gi, glen, move_num,
                   move, fen, phase, stats0, board0, sent>>

\* The locals of a move are dead once the loop goes to the next move.
EndOfMove ==
    /\ move' = NoMove
    /\ fen' = NoBoard
    /\ phase' = "none"
    /\ eval_before' = NoEval
    /\ eval_after' = NoEval
    /\ top_ucis' = <<>>
    /\ stats0' = InitStats
    /\ board0' = NoBoard
    /\ sent' = NoBoard
    /\ failed_at' = "none"

\* eval_after = engine.get_evaluation()
PostEvaluate ==
    /\ pc = "post_eval"
    /\ called' = TRUE
    /\ \/ /\ \E e \in Evaluations : eval_after' = e
          /\ evalFor' = enginePos
          /\ pc' = "record"
          /\ UNCHANGED <<enginePos, eval_before, top_ucis, stats, board,
                         failed_at>>
       \/ Raise("post")
    /\ UNCHANGED <<inputs, aside, getting, gathering, twice, scoring, other, counts, engine, error, gi, glen, move_num,
                   move, fen, phase, stats0, board0, sent>>

\* cp_before, cp_after, cpl and the move's statistics; the next move.
RecordMove ==
    /\ pc = "record"
    /\ stats' = Record(stats, phase, Cpl(board, eval_before, eval_after))
    /\ pc' = "moves"
    /\ EndOfMove
    /\ UNCHANGED <<inputs, aside, getting, gathering, twice, scoring, other, counts, engine, enginePos, called, error,
                   gi, glen, board, move_num, evalFor>>

\* Mutant of ExceptHandler: the handler goes on without pushing the move.
ExceptHandlerNoPush ==
    /\ pc = "except"
    /\ failures' = failures + 1
    /\ pc' = "moves"
    /\ EndOfMove
    /\ UNCHANGED <<inputs, aside, getting, gathering, twice, scoring, other, engine, enginePos, called, stats, gi,
                   glen, plies, move_num, evaluable, evalFor, error, board>>

\* except Exception: board.push(move); continue.  When the move is on the
\* board already the push is not pseudo-legal: the library's assertion fails
\* and the AssertionError leaves _batch, or, with assertions off (python -O,
\* or a library version without the assertion), the board is corrupted and
\* the loop goes on.
\* Mutant of ExceptHandler: the failed move is evaluated again.
ExceptHandlerRetries ==
    /\ pc = "except"
    /\ failures' = failures + 1
    /\ pc' = "pre_set"
    /\ failed_at' = "none"
    /\ UNCHANGED <<inputs, aside, getting, gathering, twice, scoring, other,
                   locals, engine, enginePos, called, stats, gi, glen, plies,
                   move_num, evaluable, evalFor, error, board>>

ExceptHandler ==
    /\ pc = "except"
    /\ failures' = failures + 1
    /\ IF ~Pushed(board, move_num)
       THEN /\ board' = Push(board, move_num, move)
            /\ pc' = "moves"
            /\ EndOfMove
            /\ UNCHANGED error
       ELSE \/ /\ board' = PushRejected(board, move_num)
               /\ pc' = "raised"
               /\ error' = "AssertionError"
               /\ UNCHANGED <<locals, failed_at>>
            \/ /\ \E d \in {-1, 0} :
                     /\ board.pieces + d >= 0
                     /\ board' = PushCorrupt(board, move_num, d)
               /\ pc' = "moves"
               /\ EndOfMove
               /\ UNCHANGED error
    /\ UNCHANGED <<inputs, aside, getting, gathering, twice, scoring, other, engine, enginePos, called, stats, gi,
                   glen, plies, move_num, evaluable, evalFor>>

\* "Compute derived stats"; return stats
Derive ==
    /\ pc = "games"
    /\ gi = ngames
    /\ stats' = Derived(stats)
    /\ pc' = "done"
    /\ UNCHANGED <<inputs, aside, getting, gathering, twice, scoring, other, locals, counts, engine, enginePos,
                   called, error, gi, glen, board, move_num, failed_at,
                   evalFor>>

Next ==
    \/ GetEngine
    \/ NextGame
    \/ SkipMove
    \/ BeginMove
    \/ EndGame
    \/ PreSetPosition
    \/ PreSetDepth
    \/ PreEvaluate
    \/ PreTopMoves
    \/ RankAndPush
    \/ PostSetPosition
    \/ PostSetDepth
    \/ PostEvaluate
    \/ RecordMove
    \/ ExceptHandler
    \/ Derive

Spec == Init /\ [][Next]_vars

\* Every evaluator call returns or raises, and _batch keeps running: no
\* step of the batch is put off for ever.
SpecFair == Spec /\ WF_vars(Next)

\* ---------------------------------------------------------------- _analyze
\* The worker of analyze_position, run in another executor thread on the
\* same engine while _batch runs.  No lock guards the engine.

\* engine = _get_engine()
AnalyzeGetEngine ==
    /\ opc = "idle"
    /\ IF engine = 0 /\ ~available
       THEN opc' = "raised" /\ UNCHANGED engine
       ELSE opc' = "set" /\ engine' = 1
    /\ UNCHANGED <<inputs, aside, getting, gathering, twice, scoring, locals, counts, enginePos, called, pc, error,
                   stats, gi, glen, board, move_num, failed_at, evalFor,
                   oEvalFor>>

\* engine.set_fen_position(fen)
AnalyzeSetPosition ==
    /\ opc = "set"
    /\ \/ opc' = "depth" /\ enginePos' = "analyze"
       \/ opc' = "raised" /\ UNCHANGED enginePos
    /\ UNCHANGED <<inputs, aside, getting, gathering, twice, scoring, locals, counts, engine, called, pc, error, stats,
                   gi, glen, board, move_num, failed_at, evalFor, oEvalFor>>

\* engine.set_depth(depth)
AnalyzeSetDepth ==
    /\ opc = "depth"
    /\ opc' \in {"eval", "raised"}
    /\ UNCHANGED <<inputs, aside, getting, gathering, twice, scoring, locals, counts, engine, enginePos, called, pc,
                   error, stats, gi, glen, board, move_num, failed_at,
                   evalFor, oEvalFor>>

\* evaluation = engine.get_evaluation()
AnalyzeEvaluate ==
    /\ opc = "eval"
    /\ \/ opc' = "top" /\ oEvalFor' = enginePos
       \/ opc' = "raised" /\ UNCHANGED oEvalFor
    /\ UNCHANGED <<inputs, aside, getting, gathering, twice, scoring, locals, counts, engine, enginePos, called, pc,
                   error, stats, gi, glen, board, move_num, failed_at,
                   evalFor>>

\* top_moves = engine.get_top_moves(num_lines); return
AnalyzeTopMoves ==
    /\ opc = "top"
    /\ opc' \in {"done", "raised"}
    /\ UNCHANGED <<inputs, aside, getting, gathering, twice, scoring, locals, counts, engine, enginePos, called, pc,
                   error, stats, gi, glen, board, move_num, failed_at,
                   evalFor, oEvalFor>>

NextConc ==
    \/ Next
    \/ AnalyzeGetEngine
    \/ AnalyzeSetPosition
    \/ AnalyzeSetDepth
    \/ AnalyzeEvaluate
    \/ AnalyzeTopMoves

SpecConc == Init /\ [][NextConc]_vars

\* --------------------------------------------------------------- two calls
\* batch_analyze_games called twice in one process, over the same games and
\* with the evaluator answering the second time as it did the first.  The
\* script fixes everything a call is given: a batch of at most one game of at
\* most one move, the evaluator call that raises if one does, what the others
\* return, and what the library does with a push that is not pseudo-legal.
FailPoints ==
    {"pre_set", "pre_depth", "pre_eval", "pre_top", "post_set", "post_depth",
     "post_eval"}

\* A field the calls never read is left at its default.
Read(s) ==
    LET game == available /\ ngames = 1
        played == game /\ s.n = 1
        tried == played /\ skip_opening_moves = 0
        post == s.fail \in {"post_set", "post_depth", "post_eval"}
    IN  /\ IF game THEN s.start # NoBoard ELSE s.start = NoBoard /\ s.n = 0
        /\ IF played THEN s.m # NoMove ELSE s.m = NoMove
        /\ tried \/ s.fail = "none"
        /\ IF tried /\ s.fail \notin {"pre_set", "pre_depth", "pre_eval"}
           THEN s.before # NoEval ELSE s.before = NoEval
        /\ (tried /\ (post \/ s.fail = "none")) \/ s.tops = <<>>
        /\ IF tried /\ s.fail = "none"
           THEN s.after # NoEval ELSE s.after = NoEval
        /\ (tried /\ post) \/ ~s.rejected
        /\ (tried /\ post /\ ~s.rejected) \/ s.d = 0

Scripts ==
    [start : StartPositions \cup {NoBoard},
     n : {0, 1},
     m : Moves \cup {NoMove},
     fail : FailPoints \cup {"none"},
     before : Evaluations \cup {NoEval},
     tops : TopLists,
     after : Evaluations \cup {NoEval},
     rejected : BOOLEAN,
     d : {-1, 0}]

InitTwice ==
    /\ ngames \in {0, 1}
    /\ skip_opening_moves \in 0..MaxSkip
    /\ available \in BOOLEAN
    /\ script \in Scripts
    /\ Read(script)
    /\ calls = 1
    /\ result1 = NoResult
    /\ engine = 0
    /\ enginePos = "none"
    /\ called = FALSE
    /\ pc = "start"
    /\ error = "none"
    /\ stats = InitStats
    /\ gi = 0
    /\ glen = 0
    /\ plies = 0
    /\ board = NoBoard
    /\ move_num = 0
    /\ move = NoMove
    /\ fen = NoBoard
    /\ phase = "none"
    /\ eval_before = NoEval
    /\ eval_after = NoEval
    /\ top_ucis = <<>>
    /\ failed_at = "none"
    /\ stats0 = InitStats
    /\ board0 = NoBoard
    /\ evaluable = 0
    /\ failures = 0
    /\ evalFor = "none"
    /\ opc = "idle"
    /\ oEvalFor = "none"
    /\ sent = NoBoard
    /\ last_cpl = 0
    /\ uniform = TRUE
    /\ NoValue
    /\ NoGetting
    /\ NoGathering

\* The step of _batch takes from the script what it is given.
Follows ==
    /\ (pc = "games" /\ pc' = "moves") =>
          (board' = script.start /\ glen' = script.n)
    /\ (pc = "moves" /\ pc' = "pre_set") => move' = script.m
    /\ (pc = "moves" /\ pc' = "moves") =>
          board' = Push(board, move_num + 1, script.m)
    /\ pc \in FailPoints => ((pc' = "except") <=> (script.fail = pc))
    /\ (pc = "pre_eval" /\ pc' = "pre_top") => eval_before' = script.before
    /\ (pc = "pre_top" /\ pc' = "rank") => top_ucis' = script.tops
    /\ (pc = "post_eval" /\ pc' = "record") => eval_after' = script.after
    /\ (pc = "except" /\ Pushed(board, move_num)) =>
          /\ (pc' = "raised") <=> script.rejected
          /\ pc' = "moves" =>
                board' = PushCorrupt(board, move_num, script.d)

\* The first call has returned or raised; batch_analyze_games is called
\* again.  The new call has locals of its own; the module's _engine and the
\* engine's position are what the first call left, and the dict the first
\* call returned is still the caller's.
CallAgain ==
    /\ calls = 1
    /\ pc \in {"done", "raised"}
    /\ result1' = [pc |-> pc, error |-> error, stats |-> stats]
    /\ calls' = 2
    /\ pc' = "start"
    /\ error' = "none"
    /\ called' = FALSE
    /\ gi' = 0
    /\ glen' = 0
    /\ board' = NoBoard
    /\ move_num' = 0
    /\ EndOfMove
    /\ evaluable' = 0
    /\ failures' = 0
    /\ plies' = 0
    /\ evalFor' = "none"
    /\ UNCHANGED <<inputs, aside, getting, gathering, scoring, other, engine, enginePos, stats, script>>

NextTwice ==
    \/ Next /\ Follows
    \/ CallAgain

SpecTwice == InitTwice /\ [][NextTwice]_vars

\* ------------------------------------------------------------- _get_engine
\* _get_engine statement by statement, called from two executor threads.
\* engine is the module's _engine: 0 for None, else the number of the
\* instance, in order of construction.
InitEngine ==
    /\ ngames = 0
    /\ skip_opening_moves = 0
    /\ available \in BOOLEAN
    /\ engine = 0
    /\ enginePos = "none"
    /\ called = FALSE
    /\ pc = "engine"
    /\ error = "none"
    /\ stats = InitStats
    /\ gi = 0
    /\ glen = 0
    /\ plies = 0
    /\ board = NoBoard
    /\ move_num = 0
    /\ move = NoMove
    /\ fen = NoBoard
    /\ phase = "none"
    /\ eval_before = NoEval
    /\ eval_after = NoEval
    /\ top_ucis = <<>>
    /\ failed_at = "none"
    /\ stats0 = InitStats
    /\ board0 = NoBoard
    /\ evaluable = 0
    /\ failures = 0
    /\ evalFor = "none"
    /\ opc = "idle"
    /\ oEvalFor = "none"
    /\ sent = NoBoard
    /\ last_cpl = 0
    /\ uniform = TRUE
    /\ script = <<>>
    /\ calls = 1
    /\ result1 = NoResult
    /\ NoValue
    /\ NoGetting
    /\ NoGathering

\* What a thread in _get_engine leaves alone, _engine and the installation
\* apart.
others == <<ngames, skip_opening_moves, enginePos, called, pc, error, stats,
            gi, glen, board, move_num, failed_at, evalFor, aside, twice,
            scoring, other, locals, counts, gathering>>

\* engine = _get_engine(), first line of _analyze and of _batch
Call(t) ==
    /\ tpc[t] = "idle"
    /\ ncalls[t] < MaxCalls
    /\ ncalls' = [ncalls EXCEPT ![t] = @ + 1]
    /\ tpc' = [tpc EXCEPT ![t] = "check"]
    /\ UNCHANGED <<others, available, engine, made, got, outcome, created>>

\* if _engine is None:
CheckNone(t) ==
    /\ tpc[t] = "check"
    /\ tpc' = [tpc EXCEPT ![t] = IF engine = 0 THEN "create" ELSE "return"]
    /\ UNCHANGED <<others, available, engine, made, got, outcome, created,
                   ncalls>>

\* The import, the check of the path and Stockfish(path=..., ...): a
\* RuntimeError when the package or the binary is missing, else a new
\* instance not yet stored.
Create(t) ==
    /\ tpc[t] = "create"
    /\ IF available
       THEN /\ created' = created + 1
            /\ made' = [made EXCEPT ![t] = created + 1]
            /\ tpc' = [tpc EXCEPT ![t] = "assign"]
            /\ UNCHANGED <<got, outcome>>
       ELSE /\ outcome' = [outcome EXCEPT ![t] = "raised"]
            /\ got' = [got EXCEPT ![t] = 0]
            /\ tpc' = [tpc EXCEPT ![t] = "idle"]
            /\ UNCHANGED <<made, created>>
    /\ UNCHANGED <<others, available, engine, ncalls>>

\* _engine = <the new instance>
Assign(t) ==
    /\ tpc[t] = "assign"
    /\ engine' = made[t]
    /\ tpc' = [tpc EXCEPT ![t] = "return"]
    /\ UNCHANGED <<others, available, made, got, outcome, created, ncalls>>

\* return _engine
Return(t) ==
    /\ tpc[t] = "return"
    /\ got' = [got EXCEPT ![t] = engine]
    /\ outcome' = [outcome EXCEPT ![t] = "returned"]
    /\ tpc' = [tpc EXCEPT ![t] = "idle"]
    /\ UNCHANGED <<others, available, engine, made, created, ncalls>>

\* The package and the binary get installed while the process runs.
Install ==
    /\ ~available
    /\ available' = TRUE
    /\ UNCHANGED <<others, getting, engine>>

NextEngine ==
    \/ \E t \in Threads : Call(t)
    \/ \E t \in Threads : CheckNone(t)
    \/ \E t \in Threads : Create(t)
    \/ \E t \in Threads : Assign(t)
    \/ \E t \in Threads : Return(t)
    \/ Install

SpecEngine == InitEngine /\ [][NextEngine]_vars

\* ------------------------------------------------- functions on their own
\* The state of a process in which no batch runs.
NoBatch ==
    /\ ngames = 0
    /\ skip_opening_moves = 0
    /\ available = TRUE
    /\ engine = 0
    /\ enginePos = "none"
    /\ called = FALSE
    /\ error = "none"
    /\ gi = 0
    /\ glen = 0
    /\ plies = 0
    /\ board = NoBoard
    /\ move_num = 0
    /\ move = NoMove
    /\ eval_before = NoEval
    /\ eval_after = NoEval
    /\ top_ucis = <<>>
    /\ failed_at = "none"
    /\ stats0 = InitStats
    /\ board0 = NoBoard
    /\ evaluable = 0
    /\ failures = 0
    /\ evalFor = "none"
    /\ opc = "idle"
    /\ oEvalFor = "none"
    /\ sent = NoBoard
    /\ script = <<>>
    /\ calls = 1
    /\ result1 = NoResult

batch == <<engine, enginePos, called, error, gi, glen, board, move_num,
           move, eval_before, eval_after, top_ucis, failed_at, stats0, board0,
           evalFor, sent>>

\* get_game_phase applied to the FEN of any position.
InitPhase ==
    /\ NoBatch
    /\ pc = "classify"
    /\ fen \in Positions
    /\ phase = "none"
    /\ stats = InitStats
    /\ last_cpl = 0
    /\ uniform = TRUE
    /\ NoValue
    /\ NoGetting
    /\ NoGathering

\* phase = get_game_phase(fen)
Classify ==
    /\ pc = "classify"
    /\ phase' = get_game_phase(fen)
    /\ pc' = "classified"
    /\ UNCHANGED <<inputs, aside, getting, gathering, twice, scoring, other, counts, batch, fen, stats>>

SpecPhase == InitPhase /\ [][Classify]_vars

\* _cp_value applied to any evaluation.
InitValue ==
    /\ NoBatch
    /\ pc = "value"
    /\ fen = NoBoard
    /\ phase = "none"
    /\ stats = InitStats
    /\ last_cpl = 0
    /\ uniform = TRUE
    /\ cp_arg \in ValueInputs
    /\ cp_ret = 0
    /\ NoGetting
    /\ NoGathering

\* cp_before = _cp_value(eval_before)
Normalize ==
    /\ pc = "value"
    /\ cp_ret' = cp_value(cp_arg)
    /\ pc' = "valued"
    /\ UNCHANGED <<inputs, getting, gathering, twice, scoring, other, counts, batch, fen,
                   phase, stats, cp_arg>>

SpecValue == InitValue /\ [][Normalize]_vars

\* The scoring of evaluated moves applied to any evaluations, sides and
\* phases, MaxScored moves at most, and then the derived stats.
InitScore ==
    /\ NoBatch
    /\ pc = "score"
    /\ fen = NoBoard
    /\ phase = "none"
    /\ stats = InitStats
    /\ last_cpl = 0
    /\ uniform = TRUE
    /\ NoValue
    /\ NoGetting
    /\ NoGathering

\* cp_before, cp_after, cpl and the move's statistics, for a move of either
\* side (t is the side to move after it).
ScoreMove ==
    /\ pc = "score"
    /\ stats.total_positions < MaxScored
    /\ \E t \in {"w", "b"}, before, after \in WideEvaluations,
          ph \in DOMAIN stats.phase_stats :
          LET c == Cpl([NoBoard EXCEPT !.turn = t], before, after)
          IN  /\ stats' = Record(stats, ph, c)
              /\ last_cpl' = c
              /\ uniform' = (stats.total_positions = 0
                                \/ (uniform /\ c = last_cpl))
    /\ UNCHANGED <<inputs, aside, getting, gathering, twice, other, counts, batch, pc, fen, phase>>

\* "Compute derived stats"; return stats
ScoreDerive ==
    /\ pc = "score"
    /\ stats' = Derived(stats)
    /\ pc' = "done"
    /\ UNCHANGED <<inputs, aside, getting, gathering, twice, scoring, other, counts, batch, fen, phase>>

NextScore ==
    \/ ScoreMove
    \/ ScoreDerive

SpecScore == InitScore /\ [][NextScore]_vars

\* ---------------------------------------------------------- gather_context
\* PlayerAnalystAgent.gather_context around batch_analyze_games.  A game is
\* its headers: id stands for the headers and moves that tell games apart,
\* result is the Result header.  The tally of openings in the basic stats
\* is left out.
Min(a, b) == IF a <= b THEN a ELSE b
\* s[:k]
Take(s, k) == SubSeq(s, 1, Min(k, Len(s)))
PlayerNames == {"", "Keres"}
BatchErrors == {"RuntimeError", "AssertionError"}
\* n games of which the first w are wins of White, the next b wins of
\* Black, the next d draws and the rest unfinished.
GamesOf(n, w, b, d) ==
    [i \in 1..n |->
        [id |-> i,
         result |-> IF i <= w THEN "1-0"
                    ELSE IF i <= w + b THEN "0-1"
                    ELSE IF i <= w + b + d THEN "1/2-1/2" ELSE "*"]]
Databases ==
    { GamesOf(n, w, b, d) :
        n \in 0..MaxFound, w \in 0..MaxFound, b \in 0..MaxFound,
        d \in 0..MaxFound }

game_to_dict(g) == [game |-> g.id, result |-> g.result, eco |-> ""]

\* _compute_basic_stats(games)
compute_basic_stats(gs) ==
    LET n(r) == Cardinality({ i \in 1..Len(gs) : gs[i].result = r })
    IN  [total_games |-> Len(gs),
         wins_white |-> n("1-0"),
         wins_black |-> n("0-1"),
         draws |-> n("1/2-1/2"),
         losses_white |-> 0,
         losses_black |-> 0]

\* What batch_analyze_games returns for these games, as far as
\* gather_context is concerned: statistics that count each of them.
BatchStats(gs) == [Derived(InitStats) EXCEPT !.games_analyzed = Len(gs)]

InitContext ==
    /\ NoBatch
    /\ pc = "context"
    /\ fen = NoBoard
    /\ phase = "none"
    /\ stats = InitStats
    /\ last_cpl = 0
    /\ uniform = TRUE
    /\ NoValue
    /\ NoGetting
    /\ gpc = "start"
    /\ database \in Databases
    /\ games = <<>>
    /\ games_to_analyze = <<>>
    /\ batch_error = "none"
    /\ context = None

still == <<inputs, aside, getting, twice, scoring, other, counts, batch, pc,
           fen, phase, stats, last_cpl, uniform>>

\* context = {...} for the player named in the query
NewContext(name) ==
    [player_name |-> name, games_found |-> 0, stats |-> None,
     sample_games |-> <<>>]

\* gather_context for a query that names no player
NoPlayer ==
    /\ gpc = "start"
    /\ context' = [error |-> "Could not identify a player name"]
                      @@ NewContext("")
    /\ gpc' = "returned"
    /\ UNCHANGED <<still, database, games, games_to_analyze, batch_error>>

\* pgn_tools.find_player_games(player_name) raises
FindRaises ==
    /\ gpc = "start"
    /\ \E name \in PlayerNames \ {""} :
          context' = [error |-> "Error searching for games"]
                        @@ NewContext(name)
    /\ gpc' = "returned"
    /\ UNCHANGED <<still, database, games, games_to_analyze, batch_error>>

\* Mutant of FindGames: all of the games are passed to the batch.
FindGamesPassesAll ==
    /\ gpc = "start"
    /\ games' = database
    /\ \E name \in PlayerNames \ {""} :
          IF Len(games') = 0
          THEN /\ context' = [error |-> "No games found"] @@ NewContext(name)
               /\ gpc' = "returned"
               /\ UNCHANGED games_to_analyze
          ELSE /\ context' =
                     [NewContext(name) EXCEPT
                         !.games_found = Len(games'),
                         !.sample_games =
                             [i \in 1..Len(Take(games', SAMPLE_LIMIT)) |->
                                 game_to_dict(games'[i])]]
               /\ games_to_analyze' = games'
               /\ gpc' = "await"
    /\ UNCHANGED <<still, database, batch_error>>

\* gather_context from the search of the player's games to the call of
\* batch_analyze_games, or to the return when there are no games
FindGames ==
    /\ gpc = "start"
    /\ games' = database
    /\ \E name \in PlayerNames \ {""} :
          IF Len(games') = 0
          THEN /\ context' = [error |-> "No games found"] @@ NewContext(name)
               /\ gpc' = "returned"
               /\ UNCHANGED games_to_analyze
          ELSE /\ context' =
                     [NewContext(name) EXCEPT
                         !.games_found = Len(games'),
                         !.sample_games =
                             [i \in 1..Len(Take(games', SAMPLE_LIMIT)) |->
                                 game_to_dict(games'[i])]]
               /\ games_to_analyze' = Take(games', ANALYZE_LIMIT)
               /\ gpc' = "await"
    /\ UNCHANGED <<still, database, batch_error>>

\* stats = await batch_analyze_games(...); context["stats"] = stats
BatchReturns ==
    /\ gpc = "await"
    /\ context' = [context EXCEPT !.stats = BatchStats(games_to_analyze)]
    /\ gpc' = "returned"
    /\ UNCHANGED <<still, database, games, games_to_analyze, batch_error>>

\* batch_analyze_games raises: except Exception as e
BatchRaises ==
    /\ gpc = "await"
    /\ \E e \in BatchErrors :
          /\ batch_error' = e
          /\ context' = [engine_error |-> e,
                         basic_stats |-> compute_basic_stats(games)]
                            @@ context
    /\ gpc' = "returned"
    /\ UNCHANGED <<still, database, games, games_to_analyze>>

NextContext ==
    \/ NoPlayer
    \/ FindRaises
    \/ FindGames
    \/ BatchReturns
    \/ BatchRaises

SpecContext == InitContext /\ [][NextContext]_vars

\* ================================================================== claims
\* The stack of a board on which moves 1..n were each pushed once, in order.
Applied(n) == [i \in 1..n |-> i]

\* C1: whenever _batch is at the head of the move loop of a game, having
\* taken move_num moves from the mainline, the board holds exactly those
\* moves, each pushed once and in game order, whatever happened to them.
C1_EachMoveAppliedOnce ==
    pc = "moves" => board.stack = Applied(move_num)

\* C2: the loss recorded for a successfully evaluated move is
\* max(0, before - (-after)) of the normalized evaluations, for a move of
\* White and for a move of Black alike.
C2_SameLossFormulaBothSides ==
    [][pc = "record" =>
         stats'.total_cpl - stats.total_cpl =
            Max(0, cp_value(eval_before) - (-cp_value(eval_after)))]_vars

\* C3: when a pre-move evaluator call of a move raised, handling it leaves
\* every statistic as it was when the move began, pushes the move once on
\* the board the move began with, and goes on with the next move.
C3_PreMoveFailureFrame ==
    [][(pc = "except" /\ failed_at = "pre") =>
         /\ stats' = stats0
         /\ board' = Push(board0, move_num, move)
         /\ pc' = "moves"]_vars

\* C3 witness: a game's first move failed before it was pushed, was pushed
\* once by the handler and the loop is back at its head.
C3_Witness ==
    /\ pc = "moves"
    /\ failures = 1
    /\ evaluable = 1
    /\ move_num = 1
    /\ board.stack = <<1>>

\* C4: a failure of the post-move evaluation ends like a failure of the
\* pre-move evaluation of the same move: statistics as when the move began,
\* the move pushed once, the loop at its next move.
C4_PostFailureLikePreFailure ==
    [][(pc = "except" /\ failed_at = "post") =>
         /\ stats' = stats0
         /\ board' = Push(board0, move_num, move)
         /\ pc' = "moves"]_vars

\* C5: nothing but the engine being unavailable at the start makes
\* batch_analyze_games raise: a per-move evaluator failure never does.
C5_OnlyStartupFailureRaises ==
    pc = "raised" => (error = "RuntimeError" /\ ~called)

\* C6: the stats returned by a batch in which evaluator calls failed account
\* for the failures: one more game per game, one position per evaluable move
\* that did not fail, and a total_errors count of at least the number of
\* moves that failed.
C6_FailuresCounted ==
    (pc = "done" /\ failures > 0) =>
        /\ stats.games_analyzed = ngames
        /\ stats.total_positions = evaluable - failures
        /\ "total_errors" \in DOMAIN stats
        /\ stats.total_errors >= failures

\* C7: when the engine cannot be obtained, _batch raises before it reaches
\* a game: no move is pushed, no evaluator call is issued and no statistics
\* are returned.
C7_UnavailableDetectedFirst ==
    (~available /\ engine = 0) =>
        /\ pc \in {"start", "raised"}
        /\ pc = "raised" => error = "RuntimeError"
        /\ board = NoBoard
        /\ plies = 0
        /\ ~called

\* C7 witness: the batch has raised at its start for want of an engine.
C7_Witness ==
    /\ pc = "raised"
    /\ ~available
    /\ ngames > 0

\* C8: every evaluation a thread receives from the shared engine is of the
\* position that thread set.
C8_EvaluationOfOwnPosition ==
    /\ evalFor \in {"none", "batch"}
    /\ oEvalFor \in {"none", "analyze"}

\* C9: at every move boundary of a batch and in the returned stats the
\* rank-match counters count evaluated positions only, so the accuracies
\* are fractions of at most 1.
C9_MatchesWithinPositions ==
    /\ pc \in {"moves", "games", "done"} =>
          stats.t3_matches <= stats.total_positions
    /\ (pc = "done" /\ stats.total_positions > 0) =>
          stats.t3_accuracy <= 10000

\* The 1-based place of the played move among the first three candidates,
\* 0 when it is not among them.
Tier(uci, tops) ==
    IF InFirst(uci, tops, TOP_N)
    THEN CHOOSE j \in 1..TOP_N :
            /\ j <= Len(tops)
            /\ tops[j] = uci
            /\ \A k \in 1..(j - 1) : tops[k] # uci
    ELSE 0

\* C10: rank-match counting is cumulative: a move equal to the first
\* candidate adds one to t1, t2 and t3, to the second one to t2 and t3, to
\* the third one to t3 only, any other move nothing; so
\* t1_matches <= t2_matches <= t3_matches always.
C10_CumulativeRankMatch ==
    /\ [](stats.t1_matches <= stats.t2_matches
            /\ stats.t2_matches <= stats.t3_matches)
    /\ [][pc = "rank" =>
            LET k == Tier(move.uci, top_ucis)
            IN  /\ stats'.t1_matches - stats.t1_matches
                      = IF k = 1 THEN 1 ELSE 0
                /\ stats'.t2_matches - stats.t2_matches
                      = IF k \in {1, 2} THEN 1 ELSE 0
                /\ stats'.t3_matches - stats.t3_matches
                      = IF k \in {1, 2, 3} THEN 1 ELSE 0]_vars

\* C10 witness: one move matched the first candidate and another the third.
C10_Witness ==
    /\ stats.t1_matches = 1
    /\ stats.t2_matches = 1
    /\ stats.t3_matches = 2

\* C11: a batch of an available engine in which no position was evaluated (no
\* games, no moves, every move skipped, or every evaluator call failing) does
\* not raise and returns acpl = 0, blunder_rate = 0 and t1_accuracy = 0.
C11_EmptyBatchReturnsZeros ==
    /\ (pc = "done" /\ stats.total_positions = 0) =>
          /\ {"acpl", "blunder_rate", "t1_accuracy"} \subseteq DOMAIN stats
          /\ stats.acpl = 0
          /\ stats.blunder_rate = 0
          /\ stats.t1_accuracy = 0
    /\ (available /\ enginePos = "none") => pc # "raised"

\* C11 witness: a batch of two moves whose first evaluator call failed each
\* time has returned.
C11_Witness ==
    /\ pc = "done"
    /\ failures = 2
    /\ enginePos = "none"
    /\ stats.total_positions = 0

\* C12: the stats returned when no position was evaluated hold every rate and
\* accuracy field, each equal to 0.
C12_AllDerivedFieldsWhenEmpty ==
    (pc = "done" /\ stats.total_positions = 0) =>
        /\ {"acpl", "blunder_rate", "mistake_rate", "inaccuracy_rate",
            "t1_accuracy", "t2_accuracy", "t3_accuracy"} \subseteq DOMAIN stats
        /\ stats.acpl = 0
        /\ stats.blunder_rate = 0
        /\ stats.mistake_rate = 0
        /\ stats.inaccuracy_rate = 0
        /\ stats.t1_accuracy = 0
        /\ stats.t2_accuracy = 0
        /\ stats.t3_accuracy = 0

\* C13: the phase of a position is a function of its fullmove number and its
\* combined count of knights, bishops, rooks and queens: opening when
\* fullmove <= 15 and count >= 12, otherwise endgame when count <= 6,
\* otherwise middlegame; it is always one of the three keys of phase_stats.
\* So (1, 12) is opening, (30, 4) endgame, (10, 8) and (16, 14) middlegame.
C13_PhaseClassification ==
    pc = "classified" =>
        LET n == fen.fullmove
            k == fen.pieces
            opening == n <= 15 /\ k >= 12
        IN  /\ phase \in DOMAIN InitStats.phase_stats
            /\ opening => phase = "opening"
            /\ (~opening /\ k <= 6) => phase = "endgame"
            /\ (~opening /\ k > 6) => phase = "middlegame"
            /\ (n = 1 /\ k = 12) => phase = "opening"
            /\ (n = 30 /\ k = 4) => phase = "endgame"
            /\ (n = 10 /\ k = 8) => phase = "middlegame"
            /\ (n = 16 /\ k = 14) => phase = "middlegame"

\* C13 witness: a position of move 16 with fourteen pieces has been
\* classified as middlegame.
C13_Witness ==
    /\ pc = "classified"
    /\ fen.fullmove = 16
    /\ fen.pieces = 14
    /\ phase = "middlegame"

\* A step that scores one move.
Scored == stats'.total_positions = stats.total_positions + 1

Phases == DOMAIN InitStats.phase_stats

\* C14: a scored move adds to at most one severity counter: to blunders when
\* its loss is above 200, to mistakes when above 100 and at most 200, to
\* inaccuracies when above 50 and at most 100, to none when at most 50; so
\* blunders + mistakes + inaccuracies <= total_positions always.
C14_AtMostOneSeverity ==
    /\ [](stats.blunders + stats.mistakes + stats.inaccuracies
            <= stats.total_positions)
    /\ [][Scored =>
            LET c == last_cpl'
            IN  /\ stats'.blunders - stats.blunders
                      = IF c > 200 THEN 1 ELSE 0
                /\ stats'.mistakes - stats.mistakes
                      = IF c > 100 /\ c <= 200 THEN 1 ELSE 0
                /\ stats'.inaccuracies - stats.inaccuracies
                      = IF c > 50 /\ c <= 100 THEN 1 ELSE 0]_vars

\* C14 witness: a move of loss 200 was counted a mistake and a move of loss
\* 100 an inaccuracy.
C14_Witness ==
    /\ stats.total_positions = 2
    /\ stats.total_cpl = 300
    /\ stats.blunders = 0
    /\ stats.mistakes = 1
    /\ stats.inaccuracies = 1

\* C15: the loss of a scored move is never negative, whatever the two
\* evaluations (mates included): total_cpl and the total_cpl of every phase
\* are non-negative and never decrease.
C15_LossNeverNegative ==
    /\ [](/\ last_cpl >= 0
          /\ stats.total_cpl >= 0
          /\ \A p \in Phases : stats.phase_stats[p].total_cpl >= 0)
    /\ [][/\ stats'.total_cpl >= stats.total_cpl
          /\ \A p \in Phases : stats'.phase_stats[p].total_cpl
                                   >= stats.phase_stats[p].total_cpl]_vars

\* C15 witness: of two scored moves one lost a won game to a mate (loss
\* 20000) and the other lost nothing.
C15_Witness ==
    /\ stats.total_positions = 2
    /\ stats.total_cpl = 2 * MATE_VALUE
    /\ last_cpl = 0

\* C16: a scored move of loss above 200 adds one to blunders and one to the
\* blunders of its phase, and its whole loss to total_cpl and to the
\* total_cpl of its phase.
C16_BlunderCountedInFull ==
    [][(Scored /\ last_cpl' > 200) =>
         /\ stats'.blunders = stats.blunders + 1
         /\ stats'.total_cpl = stats.total_cpl + last_cpl'
         /\ \E p \in Phases :
               /\ stats'.phase_stats[p].positions
                     = stats.phase_stats[p].positions + 1
               /\ stats'.phase_stats[p].blunders
                     = stats.phase_stats[p].blunders + 1
               /\ stats'.phase_stats[p].total_cpl
                     = stats.phase_stats[p].total_cpl + last_cpl'
               /\ \A q \in Phases \ {p} :
                     stats'.phase_stats[q] = stats.phase_stats[q]]_vars

\* C16 witness: an endgame move that lost a won game to a mate is one
\* blunder of loss 20000.
C16_Witness ==
    /\ stats.total_positions = 1
    /\ stats.blunders = 1
    /\ stats.total_cpl = 2 * MATE_VALUE
    /\ stats.phase_stats["endgame"].blunders = 1
    /\ stats.phase_stats["endgame"].total_cpl = 2 * MATE_VALUE

\* C17: when every one of the N >= 1 scored moves lost c, total_cpl is N * c
\* and the returned acpl is c exactly (acpl is held in tenths).
C17_UniformLossAcpl ==
    (pc = "done" /\ uniform /\ stats.total_positions >= 1) =>
        /\ stats.total_cpl = stats.total_positions * last_cpl
        /\ stats.acpl = 10 * last_cpl

\* C17 witness: two moves of loss 51 each gave acpl 51.0.
C17_Witness ==
    /\ pc = "done"
    /\ uniform
    /\ stats.total_positions = 2
    /\ last_cpl = 51
    /\ stats.acpl = 510

\* C18: a second call of batch_analyze_games in the same process, over the
\* same games and with the evaluator answering (and failing) as it did for
\* the first, ends as the first did: it returns the same statistics, or
\* raises the same error; and no call stops before it has returned or raised.
C18_SecondCallSameResult ==
    /\ (calls = 2 /\ pc \in {"done", "raised"}) =>
          /\ pc = result1.pc
          /\ error = result1.error
          /\ pc = "done" => stats = result1.stats
    /\ pc \notin {"done", "raised"} => ENABLED NextTwice

\* C18 witness: the second call has returned the statistics of one move that
\* matched the engine's first candidate.
C18_Witness ==
    /\ calls = 2
    /\ pc = "done"
    /\ stats.total_positions = 1
    /\ stats.t1_matches = 1

\* C19: games_analyzed goes up by one for each game of the input, whatever
\* was skipped or failed in it and also when it has no moves: it counts the
\* games gone through, and a batch that returns gives the number of games it
\* was passed.
C19_EveryGameCounted ==
    /\ stats.games_analyzed = gi
    /\ pc = "done" => stats.games_analyzed = ngames

\* C19 witness: a batch of a game without moves and a game whose one move
\* failed has returned games_analyzed = 2.
C19_Witness ==
    /\ pc = "done"
    /\ ngames = 2
    /\ plies = 1
    /\ failures = 1
    /\ stats.games_analyzed = 2

\* Positions of _batch before and after the push of an evaluated move, and
\* the order of its steps.
PrePcs == {"pre_set", "pre_depth", "pre_eval", "pre_top", "rank"}
PostPcs == {"post_set", "post_depth", "post_eval", "record"}
StepOrder ==
    <<"pre_set", "pre_depth", "pre_eval", "pre_top", "rank", "post_set",
      "post_depth", "post_eval", "record", "moves">>

\* C20: for an evaluated move the evaluator is given the FEN taken before the
\* move, then the depth, then asked the evaluation and the candidates; then
\* the move is pushed; then the evaluator is given the FEN of the board after
\* the push, which is the position before the move with the move applied
\* once, then the depth, then asked the evaluation.  Every earlier move of
\* the game is on the board before the first call for a move is issued.
C20_CallsFollowBoard ==
    /\ [](/\ pc \in PrePcs =>
                /\ board = board0
                /\ fen = Fen(board0)
                /\ pc # "pre_set" => sent = fen
          /\ pc \in PostPcs =>
                /\ board = Push(board0, move_num, move)
                /\ board.stack = Append(board0.stack, move_num)
                /\ sent = IF pc = "post_set" THEN fen ELSE Fen(board)
          /\ pc \in PrePcs \cup PostPcs =>
                \A i \in 1..(move_num - 1) :
                    \E j \in DOMAIN board0.stack : board0.stack[j] = i)
    /\ [][(pc \in PrePcs \cup PostPcs) =>
            (pc' = "except"
                \/ (\E k \in 1..(Len(StepOrder) - 1) :
                       pc = StepOrder[k] /\ pc' = StepOrder[k + 1]))]_vars

\* C20 witness: the second move of a game has gone through all its calls and
\* the evaluator holds the position after it.
C20_Witness ==
    /\ pc = "record"
    /\ move_num = 2
    /\ board.stack = <<1, 2>>
    /\ sent = Fen(board)

\* C21: in every game the half-moves numbered up to skip_opening_moves are
\* pushed with no evaluator call and no change of the statistics, and every
\* later half-move goes to evaluation; the numbering starts again with each
\* game.
C21_SkipPerGame ==
    /\ [](pc \in PrePcs \cup PostPcs \cup {"except"} =>
            move_num > skip_opening_moves)
    /\ [][(pc = "moves" /\ move_num' = move_num + 1) =>
            IF move_num' <= skip_opening_moves
            THEN /\ pc' = "moves"
                 /\ board'.stack = Append(board.stack, move_num')
                 /\ UNCHANGED <<stats, called, enginePos, sent, evaluable>>
            ELSE /\ pc' = "pre_set"
                 /\ board' = board
                 /\ evaluable' = evaluable + 1]_vars
    /\ [][(pc = "games" /\ pc' = "moves") => move_num' = 0]_vars

\* C21 witness: with a threshold of one, the only move of the second game
\* was skipped after the only move of the first game had been.
C21_Witness ==
    /\ skip_opening_moves = 1
    /\ gi = 1
    /\ pc = "moves"
    /\ plies = 2
    /\ glen = 1
    /\ move_num = 1
    /\ board.stack = <<1>>
    /\ evaluable = 0
    /\ ~called

\* The places 1..3 at which the candidate list holds the played move.
Places(uci, tops) == { j \in 1..3 : j <= Len(tops) /\ tops[j] = uci }

\* C22: the tier of the played move is the least place at which the first
\* three candidates hold it, and there is none when they do not, be the list
\* full, shorter than three or empty: tier 1 counts in t1, t2 and t3, tier 2
\* in t2 and t3, tier 3 in t3, no tier in none.  A short or empty list is
\* not a failure: the move is pushed and its evaluation goes on.
C22_TierFromCandidatesPresent ==
    [][pc = "rank" =>
         LET at == Places(move.uci, top_ucis)
             gain == <<stats'.t1_matches - stats.t1_matches,
                       stats'.t2_matches - stats.t2_matches,
                       stats'.t3_matches - stats.t3_matches>>
         IN  /\ at = {} => gain = <<0, 0, 0>>
             /\ 1 \in at => gain = <<1, 1, 1>>
             /\ (2 \in at /\ 1 \notin at) => gain = <<0, 1, 1>>
             /\ (at = {3}) => gain = <<0, 0, 1>>
             /\ pc' = "post_set"
             /\ failures' = failures
             /\ failed_at' = "none"]_vars

\* C22 witness: a move was evaluated to the end and matched nothing.  The
\* candidates are distinct and the played move is one of the three there
\* are, so the list it was compared with had fewer than three entries.
C22_Witness ==
    /\ pc = "moves"
    /\ move_num = 1
    /\ failures = 0
    /\ stats.total_positions = 1
    /\ stats.t3_matches = 0

\* C23: _cp_value returns the value of a centipawn evaluation unchanged, and
\* for a mate evaluation 10000 when its value is above 0 and -10000 when it
\* is 0 or below; the type field alone decides which of the two it is.
C23_Normalization ==
    pc = "valued" =>
        /\ cp_arg.type = "cp" => cp_ret = cp_arg.value
        /\ (cp_arg.type = "mate" /\ cp_arg.value > 0) => cp_ret = 10000
        /\ (cp_arg.type = "mate" /\ cp_arg.value <= 0) => cp_ret = -10000

\* C23 witness: a mate in 0 was normalized to -10000.
C23_Witness ==
    /\ pc = "valued"
    /\ cp_arg = [type |-> "mate", value |-> 0]
    /\ cp_ret = -10000

\* C24: an evaluated move is counted under the phase of the position it was
\* played in, by that position's fullmove number and piece count, not under
\* the phase of the position it led to: a capture that takes the count from
\* 7 to 6 counts as middlegame, and Black's move 15, which leads to fullmove
\* number 16, is classified with 15.
C24_PhaseOfPositionBefore ==
    [][pc = "record" =>
         LET n == board0.fullmove
             k == board0.pieces
             p == IF n <= 15 /\ k >= 12 THEN "opening"
                  ELSE IF k <= 6 THEN "endgame" ELSE "middlegame"
         IN  /\ stats'.phase_stats[p].positions
                   = stats.phase_stats[p].positions + 1
             /\ \A q \in Phases \ {p} :
                   stats'.phase_stats[q] = stats.phase_stats[q]
             /\ (k = 7 /\ board.pieces = 6) => p = "middlegame"
             /\ (n = 15 /\ k >= 12 /\ board.fullmove = 16) =>
                   p = "opening"]_vars

\* C24 witness: the second game's only move was a capture that took the
\* piece count from 7 to 6 and it was counted as a middlegame move, next to
\* the first game's move, counted as an opening move.
C24_Witness ==
    /\ pc = "moves"
    /\ gi = 1
    /\ move_num = 1
    /\ failures = 0
    /\ board0 = NoBoard
    /\ board.pieces = 6
    /\ board.fullmove = 30
    /\ stats.phase_stats["opening"].positions = 1
    /\ stats.phase_stats["middlegame"].positions = 1
    /\ stats.phase_stats["endgame"].positions = 0

\* C25: in the returned statistics a phase has an acpl exactly when it has
\* positions, and that acpl is the phase's total loss over its positions to
\* the nearest tenth; when no position was evaluated at all, no phase has an
\* acpl.
C25_PhaseAcplIffPositions ==
    pc = "done" =>
        /\ \A p \in Phases :
              LET ps == stats.phase_stats[p]
              IN  /\ "acpl" \in DOMAIN ps <=> ps.positions > 0
                  /\ ps.positions > 0 =>
                        /\ 2 * (10 * ps.total_cpl - ps.acpl * ps.positions)
                              <= ps.positions
                        /\ 2 * (ps.acpl * ps.positions - 10 * ps.total_cpl)
                              <= ps.positions
        /\ stats.total_positions = 0 =>
              \A p \in Phases : "acpl" \notin DOMAIN stats.phase_stats[p]

\* C25 witness: two opening moves of losses 50 and 51 gave the opening an
\* acpl of 50.5, and the phases without positions none.
C25_Witness ==
    /\ pc = "done"
    /\ stats.phase_stats["opening"].positions = 2
    /\ stats.phase_stats["opening"].total_cpl = 101
    /\ stats.phase_stats["opening"].acpl = 505
    /\ "acpl" \notin DOMAIN stats.phase_stats["middlegame"]
    /\ "acpl" \notin DOMAIN stats.phase_stats["endgame"]

\* C26: at every point of a batch the three phases partition the totals:
\* their positions add up to total_positions, their losses to total_cpl and
\* their blunders to blunders.
C26_PhasesPartitionTotals ==
    LET ps == stats.phase_stats
    IN  /\ ps["opening"].positions + ps["middlegame"].positions
              + ps["endgame"].positions = stats.total_positions
        /\ ps["opening"].total_cpl + ps["middlegame"].total_cpl
              + ps["endgame"].total_cpl = stats.total_cpl
        /\ ps["opening"].blunders + ps["middlegame"].blunders
              + ps["endgame"].blunders = stats.blunders

\* C26 witness: two blunders, one in an opening and one in a middlegame,
\* with the batch still running.
C26_Witness ==
    /\ pc = "moves"
    /\ stats.blunders = 2
    /\ stats.total_positions = 2
    /\ stats.phase_stats["opening"].blunders = 1
    /\ stats.phase_stats["middlegame"].blunders = 1
    /\ stats.phase_stats["opening"].total_cpl > BLUNDER_CP
    /\ stats.total_cpl > stats.phase_stats["opening"].total_cpl

\* C27: the engine is a singleton: whatever the interleaving of the calls of
\* _get_engine, at most one Stockfish instance is ever constructed, every
\* call that returns returns that instance, and a call that raised cached
\* nothing, so that _engine holds an instance only once one was constructed.
C27_EngineSingleton ==
    /\ created <= 1
    /\ \A t \in Threads : outcome[t] = "returned" => got[t] = 1
    /\ \A t, u \in Threads :
          (outcome[t] = "returned" /\ outcome[u] = "returned") =>
              got[t] = got[u]
    /\ created = 0 => engine = 0

\* C28: when batch_analyze_games raises for a player whose games were found,
\* gather_context returns a context with stats None, engine_error the text
\* of the failure, basic_stats counted over all of the player's games, no
\* error entry, and games_found and sample_games as they were set; and the
\* batch is never given more than the first 10 of the games.
C28_FallbackToBasicStats ==
    LET count(r) ==
            Cardinality({ i \in 1..Len(database) : database[i].result = r })
    IN  /\ gpc = "await" =>
              /\ Len(games_to_analyze) <= 10
              /\ \A i \in 1..Len(games_to_analyze) :
                    games_to_analyze[i] = database[i]
        /\ (gpc = "returned" /\ batch_error # "none") =>
              /\ context.stats = None
              /\ context.engine_error = batch_error
              /\ context.basic_stats.total_games = Len(database)
              /\ context.basic_stats.wins_white = count("1-0")
              /\ context.basic_stats.wins_black = count("0-1")
              /\ context.basic_stats.draws = count("1/2-1/2")
              /\ "error" \notin DOMAIN context
              /\ context.games_found = Len(database)
              /\ Len(context.sample_games) = Min(5, Len(database))
              /\ \A i \in 1..Len(context.sample_games) :
                    /\ context.sample_games[i].game = database[i].id
                    /\ context.sample_games[i].result = database[i].result

\* C28 witness: eleven games were found, the last of them a draw, ten were
\* passed to the batch, the batch raised, and the context came back with the
\* basic stats of the eleven.
C28_Witness ==
    /\ gpc = "returned"
    /\ batch_error = "RuntimeError"
    /\ Len(database) = 11
    /\ database[11].result = "1/2-1/2"
    /\ Len(games_to_analyze) = 10
    /\ context.games_found = 11
    /\ context.basic_stats.total_games = 11
    /\ context.basic_stats.draws = 1
    /\ Len(context.sample_games) = 5
    /\ context.engine_error = "RuntimeError"

\* C29: the batch terminates whatever the games and whichever evaluator
\* calls fail: the moves of a game are visited one after the other, each
\* once, a game is left only when all of its moves were visited, a move
\* whose evaluation failed is not evaluated again, and the batch eventually
\* returns or raises.
C29_BatchTerminates ==
    /\ <>(pc \in {"done", "raised"})
    /\ [][/\ move_num' \in {move_num, move_num + 1, 0}
          /\ (move_num' = move_num + 1) =>
                (pc = "moves" /\ move_num < glen)
          /\ (pc = "moves" /\ move_num' = move_num) =>
                (move_num = glen /\ pc' = "games")
          /\ (pc = "except") =>
                (pc' \in {"moves", "raised"} /\ move_num' = move_num)]_vars
    /\ [](pc = "done" => (gi = ngames /\ failures <= evaluable))

\* C29 witness: a batch of two games returned after both of its moves were
\* visited and the evaluation of one of them had failed.
C29_Witness ==
    /\ pc = "done"
    /\ ngames = 2
    /\ plies = 2
    /\ evaluable = 2
    /\ failures = 1
    /\ stats.total_positions = 1
    /\ stats.games_analyzed = 2

====
